---- MODULE Spec2Model ----
(***************************************************************************)
(* The ledger engine of payengine (src/src/engine.rs): PaymentsEngine      *)
(* consuming a stream of transactions through process_txs / update.        *)
(* Amounts are rust_decimal values; they are modelled as integers counting *)
(* the smallest unit, which is exact for +, - and >=. The streams carry    *)
(* positive amounts.                                                       *)
(* SpecPipeline adds the producer (src/src/reader.rs: fetch_csv_data,      *)
(* from_parsed) feeding the engine through a bounded channel, with update  *)
(* taken one call at a time.                                               *)
(***************************************************************************)
EXTENDS Integers, Sequences, FiniteSets, TLC

\* ------------------------------------------------------------------ bounds
NumClients == 2
NumTxIds == 2
MaxAmount == 1
MaxFree == 1
MaxRecords == 2
ChannelSize == 2

ClientId == 1..NumClients
TxId == 1..NumTxIds
Amount == 1..MaxAmount

\* ------------------------------------------------------------------ types
\* enum TxInner
TxInner ==
    [kind : {"Deposit", "Withdrawal"}, amount : Amount]
      \cup [kind : {"Dispute", "Resolve", "Chargeback"}]

\* struct Tx
Tx == [client_id : ClientId, tx_id : TxId, inner : TxInner]

HasAmount(inner) == inner.kind \in {"Deposit", "Withdrawal"}

VARIABLES
    client_accounts,  \* HashMap<ClientId, ClientAccount>: a function on the ids present
    done_txs,         \* HashMap<TxId, Tx>: a function on the tx_ids present
    disputed_txs,     \* HashSet<TxId>
    input_source,     \* the items the stream is known to yield next, oldest first;
                      \* <<>> when its content is left open
    pc,               \* process_txs: "running", or returned "ok" / "err"
    \* history variables
    last,             \* kind of the transaction update was last called with, and
                      \* whether can_process_tx admitted it
    sum_deposits,     \* per client, the amounts of the Deposits consumed
    sum_withdrawals,  \* per client, the amounts of the Withdrawals consumed with
                      \* an account present and amount <= available
    seen_dw,          \* tx_ids of the Deposits and Withdrawals consumed
    distinct_dw,      \* no two consumed Deposits/Withdrawals shared a tx_id
    lifecycle,        \* the dispute most recently applied and what followed it
    rejection,        \* ids: the tx_ids that were vacant in the history when a
                      \* transaction carrying them was rejected at admission and
                      \* that no admitted transaction has carried since;
                      \* reused: an admitted Deposit/Withdrawal carried one of them
    open_disputes,    \* the tx_ids whose most recent effective Dispute or Resolve
                      \* was a Dispute
    \* the producer feeding the stream, and update taken one call at a time
    producer,         \* fetch_csv_data: "reading", returned "ok" or an error;
                      \* "absent" when the stream's content is given instead
    records_read,     \* number of records fetch_csv_data has taken from the file
    current,          \* the tx update was called with and has not returned from:
                      \* <<tx>>, or <<>> outside update
    expected,         \* history: <<update(tx)>> as of the moment next() yielded tx
    malformed_read    \* history: fetch_csv_data has taken a Deposit or Withdrawal
                      \* record with no amount from the file

engine == <<client_accounts, done_txs, disputed_txs>>
sums == <<sum_deposits, sum_withdrawals, seen_dw, distinct_dw>>
pipeline == <<producer, records_read, current, expected, malformed_read>>
vars == <<client_accounts, done_txs, disputed_txs, input_source, pc, last,
          sum_deposits, sum_withdrawals, seen_dw, distinct_dw, lifecycle, rejection,
          open_disputes,
          producer, records_read, current, expected, malformed_read>>

\* ------------------------------------------------------------------ ClientAccount
ClientAccount_new == [available |-> 0, held |-> 0, locked |-> FALSE]

ClientAccount_deposit(account, amount) ==
    [account EXCEPT !.available = @ + amount]

\* mutant: the withdrawal is credited instead of debited
ClientAccount_withdrawal_credits(account, amount) ==
    [account EXCEPT !.available = @ + amount]

ClientAccount_withdrawal(account, amount) ==
    [account EXCEPT !.available = @ - amount]

\* mutant: the disputed amount leaves available and is not held
ClientAccount_dispute_not_held(account, amount) ==
    [account EXCEPT !.available = @ - amount]

ClientAccount_dispute(account, amount) ==
    [account EXCEPT !.available = @ - amount, !.held = @ + amount]

ClientAccount_resolve(account, amount) ==
    [account EXCEPT !.available = @ + amount, !.held = @ - amount]

ClientAccount_chargeback(account, amount) ==
    [account EXCEPT !.available = @ - amount, !.held = @ - amount, !.locked = TRUE]

Total(account) == account.available + account.held

\* ------------------------------------------------------------------ PaymentsEngine
\* HashMap::entry(k).or_insert_with(new), then f applied to the entry
EntryOrInsert(accounts, client_id) ==
    IF client_id \in DOMAIN accounts THEN accounts[client_id] ELSE ClientAccount_new

Put(map, key, value) ==
    [k \in DOMAIN map \cup {key} |-> IF k = key THEN value ELSE map[k]]

\* mutant: a locked account stops withdrawals only
client_account_frozen_withdrawals_only(tx) ==
    /\ tx.inner.kind = "Withdrawal"
    /\ tx.client_id \in DOMAIN client_accounts
    /\ client_accounts[tx.client_id].locked

client_account_frozen(tx) ==
    /\ tx.client_id \in DOMAIN client_accounts
    /\ client_accounts[tx.client_id].locked

\* mutant: a client with no account passes the funds check
sufficient_funds_without_account(tx) ==
    IF tx.inner.kind = "Withdrawal" /\ tx.client_id \in DOMAIN client_accounts
    THEN client_accounts[tx.client_id].available >= tx.inner.amount
    ELSE TRUE

\* mutant: a withdrawal is admitted whatever the balance
sufficient_funds_unchecked(tx) == TRUE

sufficient_funds(tx) ==
    IF tx.inner.kind = "Withdrawal"
    THEN /\ tx.client_id \in DOMAIN client_accounts
         /\ client_accounts[tx.client_id].available >= tx.inner.amount
    ELSE TRUE

can_process_tx(tx) == ~client_account_frozen(tx) /\ sufficient_funds(tx)

\* The lookup dispute, resolve and chargeback share: the referenced entry of
\* done_txs carries an amount and the tx's own client has an account.
Referenced(tx) ==
    /\ tx.tx_id \in DOMAIN done_txs
    /\ HasAmount(done_txs[tx.tx_id].inner)
    /\ tx.client_id \in DOMAIN client_accounts

ReferencedAmount(tx) == done_txs[tx.tx_id].inner.amount

\* mutant: the deposit credits an account only when one exists already
PaymentsEngine_deposit_existing_only(client_id, amount) ==
    IF client_id \in DOMAIN client_accounts
    THEN Put(client_accounts, client_id,
             ClientAccount_deposit(client_accounts[client_id], amount))
    ELSE client_accounts

PaymentsEngine_deposit(client_id, amount) ==
    Put(client_accounts, client_id,
        ClientAccount_deposit(EntryOrInsert(client_accounts, client_id), amount))

PaymentsEngine_withdrawal(client_id, amount) ==
    Put(client_accounts, client_id,
        ClientAccount_withdrawal(EntryOrInsert(client_accounts, client_id), amount))

\* mutant: the dispute is applied to the client of the referenced transaction
PaymentsEngine_dispute_original_owner(tx) ==
    IF Referenced(tx)
    THEN [accounts |-> Put(client_accounts, done_txs[tx.tx_id].client_id,
                           ClientAccount_dispute(
                             EntryOrInsert(client_accounts, done_txs[tx.tx_id].client_id),
                             ReferencedAmount(tx))),
          disputed |-> disputed_txs \cup {tx.tx_id}]
    ELSE [accounts |-> client_accounts, disputed |-> disputed_txs]

PaymentsEngine_dispute(tx) ==
    IF Referenced(tx)
    THEN [accounts |-> Put(client_accounts, tx.client_id,
                           ClientAccount_dispute(client_accounts[tx.client_id],
                                                 ReferencedAmount(tx))),
          disputed |-> disputed_txs \cup {tx.tx_id}]
    ELSE [accounts |-> client_accounts, disputed |-> disputed_txs]

\* mutant: the resolve leaves the tx_id in the disputed set
PaymentsEngine_resolve_keeps_disputed(tx) ==
    IF Referenced(tx)
    THEN [accounts |-> Put(client_accounts, tx.client_id,
                           ClientAccount_resolve(client_accounts[tx.client_id],
                                                 ReferencedAmount(tx))),
          disputed |-> disputed_txs]
    ELSE [accounts |-> client_accounts, disputed |-> disputed_txs]

PaymentsEngine_resolve(tx) ==
    IF Referenced(tx)
    THEN [accounts |-> Put(client_accounts, tx.client_id,
                           ClientAccount_resolve(client_accounts[tx.client_id],
                                                 ReferencedAmount(tx))),
          disputed |-> disputed_txs \ {tx.tx_id}]
    ELSE [accounts |-> client_accounts, disputed |-> disputed_txs]

\* mutant: the chargeback applies to a tx_id under dispute only
PaymentsEngine_chargeback_disputed_only(tx) ==
    IF Referenced(tx) /\ tx.tx_id \in disputed_txs
    THEN [accounts |-> Put(client_accounts, tx.client_id,
                           ClientAccount_chargeback(client_accounts[tx.client_id],
                                                    ReferencedAmount(tx))),
          disputed |-> disputed_txs]
    ELSE [accounts |-> client_accounts, disputed |-> disputed_txs]

PaymentsEngine_chargeback(tx) ==
    IF Referenced(tx)
    THEN [accounts |-> Put(client_accounts, tx.client_id,
                           ClientAccount_chargeback(client_accounts[tx.client_id],
                                                    ReferencedAmount(tx))),
          disputed |-> disputed_txs]
    ELSE [accounts |-> client_accounts, disputed |-> disputed_txs]

\* The accounts and the disputed set update_client_accounts leaves.
update_client_accounts(tx) ==
    CASE tx.inner.kind = "Deposit" ->
           [accounts |-> PaymentsEngine_deposit(tx.client_id, tx.inner.amount),
            disputed |-> disputed_txs]
      [] tx.inner.kind = "Withdrawal" ->
           [accounts |-> PaymentsEngine_withdrawal(tx.client_id, tx.inner.amount),
            disputed |-> disputed_txs]
      [] tx.inner.kind = "Dispute" -> PaymentsEngine_dispute(tx)
      [] tx.inner.kind = "Resolve" -> PaymentsEngine_resolve(tx)
      [] tx.inner.kind = "Chargeback" -> PaymentsEngine_chargeback(tx)

\* update_tx_history: the entry API on done_txs, for every admitted tx.
HistoryVacant(tx) == tx.tx_id \notin DOMAIN done_txs

\* mutant: the entry is overwritten instead of checked
update_tx_history_overwrites(tx) ==
    [done |-> Put(done_txs, tx.tx_id, tx), result |-> "ok"]

\* mutant: only a Deposit or Withdrawal claims a slot of the history
update_tx_history_deposits_withdrawals_only(tx) ==
    IF ~HasAmount(tx.inner)
    THEN [done |-> done_txs, result |-> "ok"]
    ELSE IF HistoryVacant(tx)
    THEN [done |-> Put(done_txs, tx.tx_id, tx), result |-> "ok"]
    ELSE [done |-> done_txs, result |-> "err"]

update_tx_history(tx) ==
    IF HistoryVacant(tx)
    THEN [done |-> Put(done_txs, tx.tx_id, tx), result |-> "ok"]
    ELSE [done |-> done_txs, result |-> "err"]

\* mutant: the history is updated for a rejected transaction too
update_records_rejected(tx) ==
    LET changed == update_client_accounts(tx)
        recorded == update_tx_history(tx)
    IN IF can_process_tx(tx)
       THEN [accounts |-> changed.accounts, disputed |-> changed.disputed,
             done |-> recorded.done, result |-> recorded.result]
       ELSE [accounts |-> client_accounts, disputed |-> disputed_txs,
             done |-> recorded.done, result |-> recorded.result]

\* mutant: the history is checked first and a duplicate changes no account
update_checks_history_first(tx) ==
    LET changed == update_client_accounts(tx)
        recorded == update_tx_history(tx)
    IN IF can_process_tx(tx) /\ recorded.result = "ok"
       THEN [accounts |-> changed.accounts, disputed |-> changed.disputed,
             done |-> recorded.done, result |-> "ok"]
       ELSE [accounts |-> client_accounts, disputed |-> disputed_txs,
             done |-> done_txs,
             result |-> IF can_process_tx(tx) THEN "err" ELSE "ok"]

\* update: what it leaves in the engine, and what it returns.
update(tx) ==
    IF can_process_tx(tx)
    THEN LET changed == update_client_accounts(tx)
             recorded == update_tx_history(tx)
         IN [accounts |-> changed.accounts, disputed |-> changed.disputed,
             done |-> recorded.done, result |-> recorded.result]
    ELSE [accounts |-> client_accounts, disputed |-> disputed_txs,
          done |-> done_txs, result |-> "ok"]

\* ------------------------------------------------------------------ actions
\* PaymentsEngine::new, before process_txs has consumed anything
NewEngine ==
    /\ client_accounts = <<>>
    /\ done_txs = <<>>
    /\ disputed_txs = {}
    /\ pc = "running"
    /\ last = [kind |-> "None", admitted |-> FALSE]
    /\ sum_deposits = [c \in ClientId |-> 0]
    /\ sum_withdrawals = [c \in ClientId |-> 0]
    /\ seen_dw = {}
    /\ distinct_dw = TRUE
    /\ lifecycle = [stage |-> "none"]
    /\ rejection = [ids |-> {}, reused |-> FALSE]
    /\ open_disputes = {}
    /\ current = <<>>
    /\ expected = <<>>

\* The stream's content is given or left open: no producer is modelled.
StreamGiven ==
    /\ producer = "absent"
    /\ records_read = 0
    /\ malformed_read = FALSE

\* The body of process_txs' loop for the item tx: self.update(tx)?
Apply(tx) ==
    /\ last' = [kind |-> tx.inner.kind, admitted |-> can_process_tx(tx)]
    /\ LET outcome == update(tx) IN
         /\ pc' = IF outcome.result = "ok" THEN "running" ELSE "err"
         /\ client_accounts' = outcome.accounts
         /\ disputed_txs' = outcome.disputed
         /\ done_txs' = outcome.done

\* next() yields None: process_txs returns Ok(()).
EndOfStream ==
    /\ pc = "running"
    /\ input_source = <<>>
    /\ pc' = "ok"
    /\ UNCHANGED <<engine, input_source, last, sums, lifecycle, rejection, open_disputes, pipeline>>

\* ---- a stream whose content is open: next() yields Some(tx) for any tx
Init ==
    /\ NewEngine
    /\ StreamGiven
    /\ input_source = <<>>

ProcessTx ==
    /\ pc = "running"
    /\ input_source = <<>>
    /\ \E tx \in Tx : Apply(tx)
    /\ UNCHANGED <<input_source, sums, lifecycle, rejection, open_disputes, pipeline>>

Next == ProcessTx \/ EndOfStream

Spec == Init /\ [][Next]_vars

\* ---- a stream of Deposits and Withdrawals only, with the sums of what it held
DWTx == {tx \in Tx : HasAmount(tx.inner)}

\* The funds check as the ledger rules state it, on the balances before the item.
FundsCover(tx) ==
    /\ tx.client_id \in DOMAIN client_accounts
    /\ tx.inner.amount <= client_accounts[tx.client_id].available

RecordDW(tx) ==
    /\ sum_deposits' =
         IF tx.inner.kind = "Deposit"
         THEN [sum_deposits EXCEPT ![tx.client_id] = @ + tx.inner.amount]
         ELSE sum_deposits
    /\ sum_withdrawals' =
         IF tx.inner.kind = "Withdrawal" /\ FundsCover(tx)
         THEN [sum_withdrawals EXCEPT ![tx.client_id] = @ + tx.inner.amount]
         ELSE sum_withdrawals
    /\ seen_dw' = seen_dw \cup {tx.tx_id}
    /\ distinct_dw' = (distinct_dw /\ tx.tx_id \notin seen_dw)

ProcessDW ==
    /\ pc = "running"
    /\ input_source = <<>>
    /\ \E tx \in DWTx : Apply(tx) /\ RecordDW(tx)
    /\ UNCHANGED <<input_source, lifecycle, rejection, open_disputes, pipeline>>

NextDW == ProcessDW \/ EndOfStream

SpecDW == Init /\ [][NextDW]_vars

\* ---- a stream whose content is given: process_txs consumes it from the head
MkTx(client_id, tx_id, kind) ==
    [client_id |-> client_id, tx_id |-> tx_id, inner |-> [kind |-> kind]]

MkAmountTx(client_id, tx_id, kind, amount) ==
    [client_id |-> client_id, tx_id |-> tx_id,
     inner |-> [kind |-> kind, amount |-> amount]]

RECURSIVE SeqsUpTo(_, _)
SeqsUpTo(S, n) ==
    IF n = 0 THEN {<<>>}
    ELSE SeqsUpTo(S, n - 1)
           \cup {Append(q, x) : q \in {r \in SeqsUpTo(S, n - 1) : Len(r) = n - 1}, x \in S}

\* A Dispute that moves funds of the client's own recorded Deposit opens a
\* lifecycle, with the client's balances as they were before it; the Resolve or
\* Chargeback of the same client and tx_id consumed right after it advances it.
LifecycleAfter(tx) ==
    IF /\ tx.inner.kind = "Dispute"
       /\ tx.tx_id \in DOMAIN done_txs
       /\ done_txs[tx.tx_id].inner.kind = "Deposit"
       /\ done_txs[tx.tx_id].client_id = tx.client_id
       /\ tx.client_id \in DOMAIN client_accounts
       /\ ~client_accounts[tx.client_id].locked
    THEN [stage |-> "disputed", client_id |-> tx.client_id, tx_id |-> tx.tx_id,
          amount |-> done_txs[tx.tx_id].inner.amount,
          available |-> client_accounts[tx.client_id].available,
          held |-> client_accounts[tx.client_id].held]
    ELSE IF /\ lifecycle.stage = "disputed"
            /\ tx.inner.kind \in {"Resolve", "Chargeback"}
            /\ tx.client_id = lifecycle.client_id
            /\ tx.tx_id = lifecycle.tx_id
    THEN [lifecycle EXCEPT !.stage =
            IF tx.inner.kind = "Resolve" THEN "resolved" ELSE "chargedback"]
    ELSE [stage |-> "none"]

\* The admission rule as the ledger rules state it.
Admissible(tx) ==
    /\ ~(tx.client_id \in DOMAIN client_accounts /\ client_accounts[tx.client_id].locked)
    /\ tx.inner.kind = "Withdrawal" =>
         /\ tx.client_id \in DOMAIN client_accounts
         /\ client_accounts[tx.client_id].available >= tx.inner.amount

RejectionAfter(tx) ==
    IF Admissible(tx)
    THEN [ids |-> rejection.ids \ {tx.tx_id},
          reused |-> rejection.reused
                       \/ (HasAmount(tx.inner) /\ tx.tx_id \in rejection.ids)]
    ELSE [ids |-> IF tx.tx_id \in DOMAIN done_txs
                  THEN rejection.ids
                  ELSE rejection.ids \cup {tx.tx_id},
          reused |-> rejection.reused]

\* A Dispute, Resolve or Chargeback is effective when it is admitted, its tx_id
\* is recorded in the history as a Deposit or Withdrawal, and its client has an
\* account.
Effective(tx) ==
    /\ ~HasAmount(tx.inner)
    /\ Admissible(tx)
    /\ tx.tx_id \in DOMAIN done_txs
    /\ done_txs[tx.tx_id].inner.kind \in {"Deposit", "Withdrawal"}
    /\ tx.client_id \in DOMAIN client_accounts

OpenDisputesAfter(tx) ==
    IF Effective(tx) /\ tx.inner.kind = "Dispute" THEN open_disputes \cup {tx.tx_id}
    ELSE IF Effective(tx) /\ tx.inner.kind = "Resolve" THEN open_disputes \ {tx.tx_id}
    ELSE open_disputes

ProcessHead ==
    /\ pc = "running"
    /\ input_source # <<>>
    /\ Apply(Head(input_source))
    /\ lifecycle' = LifecycleAfter(Head(input_source))
    /\ rejection' = RejectionAfter(Head(input_source))
    /\ open_disputes' = OpenDisputesAfter(Head(input_source))
    /\ input_source' = Tail(input_source)
    /\ UNCHANGED <<sums, pipeline>>

\* The stream starts with up to MaxFree items of any kind.
FreeStreams == SeqsUpTo(Tx, MaxFree)

\* A Deposit, its Dispute and the Resolve or Chargeback of it.
LifecycleItems(c, t, a, k) ==
    <<MkAmountTx(c, t, "Deposit", a), MkTx(c, t, "Dispute"), MkTx(c, t, k)>>

\* Streams that end with LifecycleItems, and the streams that stop before them.
InitLifecycle ==
    /\ NewEngine
    /\ StreamGiven
    /\ \E pre \in FreeStreams :
         \/ input_source = pre
         \/ \E c \in ClientId, t \in TxId, a \in Amount, k \in {"Resolve", "Chargeback"} :
              input_source = pre \o LifecycleItems(c, t, a, k)

NextLifecycle == ProcessHead \/ EndOfStream

SpecLifecycle == InitLifecycle /\ [][NextLifecycle]_vars

\* A Deposit and the Chargeback of it, which locks the client's account.
LockingItems(c, t, a) ==
    <<MkAmountTx(c, t, "Deposit", a), MkTx(c, t, "Chargeback")>>

\* Streams that go on with up to MaxFree items of any kind after LockingItems.
InitLocking ==
    /\ NewEngine
    /\ StreamGiven
    /\ \E c \in ClientId, t \in TxId, a \in Amount, post \in FreeStreams :
         input_source = LockingItems(c, t, a) \o post

\* process_txs is called again on the engine after it returned the error; the
\* stream still holds the items that follow.
Resume ==
    /\ pc = "err"
    /\ pc' = "running"
    /\ UNCHANGED <<engine, input_source, last, sums, lifecycle, rejection, open_disputes, pipeline>>

NextResumed == ProcessHead \/ EndOfStream \/ Resume

SpecResumed == InitLocking /\ [][NextResumed]_vars

\* A stream that sets the engine up (nothing, a Deposit, or a Deposit and the
\* Chargeback that locks its client) and goes on with two items of any kind.
InitRejected ==
    /\ NewEngine
    /\ StreamGiven
    /\ \E x \in Tx, y \in Tx :
         \/ input_source = <<x, y>>
         \/ \E c \in ClientId, t \in TxId, a \in Amount :
              \/ input_source = <<MkAmountTx(c, t, "Deposit", a), x, y>>
              \/ input_source = LockingItems(c, t, a) \o <<x, y>>

NextRejected == ProcessHead \/ EndOfStream \/ Resume

SpecRejected == InitRejected /\ [][NextRejected]_vars

\* ------------------------------------------------------------------ reader
\* Option<Amount>: None is <<>>, Some(a) is <<a>>
OptionAmount == {<<>>} \cup {<<a>> : a \in Amount}

\* enum TxType
TxType == {"Deposit", "Withdrawal", "Dispute", "Resolve", "Chargeback"}

\* struct ParsedTx
ParsedTx ==
    [tx_type : TxType, client_id : ClientId, tx_id : TxId, amount : OptionAmount]

\* A line of the file that csv or serde cannot turn into a ParsedTx.
Undeserializable == [tx_type |-> "undeserializable"]

\* What csv_reader.records() can yield.
CsvRecord == ParsedTx \cup {Undeserializable}

\* The Deposit and Withdrawal records with no amount.
MalformedRecords ==
    {record \in ParsedTx :
       record.tx_type \in {"Deposit", "Withdrawal"} /\ record.amount = <<>>}

\* mutant: a missing amount is taken as the default amount (unwrap_or_default)
from_parsed_defaults_amount(tx) ==
    [ok |-> TRUE,
     tx |-> [client_id |-> tx.client_id, tx_id |-> tx.tx_id,
             inner |-> IF tx.tx_type \in {"Deposit", "Withdrawal"}
                       THEN [kind |-> tx.tx_type,
                             amount |-> IF tx.amount = <<>> THEN 0 ELSE tx.amount[1]]
                       ELSE [kind |-> tx.tx_type]]]

\* impl FromParsedTx for Tx: Ok(tx), or the error of amount.ok_or_else(..)?
from_parsed(tx) ==
    IF tx.tx_type \in {"Deposit", "Withdrawal"}
    THEN IF tx.amount = <<>>
         THEN [ok |-> FALSE]
         ELSE [ok |-> TRUE,
               tx |-> [client_id |-> tx.client_id, tx_id |-> tx.tx_id,
                       inner |-> [kind |-> tx.tx_type, amount |-> tx.amount[1]]]]
    ELSE [ok |-> TRUE,
          tx |-> [client_id |-> tx.client_id, tx_id |-> tx.tx_id,
                  inner |-> [kind |-> tx.tx_type]]]

\* One iteration of fetch_csv_data's loop on the record the file yields next:
\* deserialize, from_parsed, sender.send(tx).await. Each `?` returns the error,
\* which drops the sender; send waits while the channel is full.
Iteration(record) ==
    /\ records_read' = records_read + 1
    /\ malformed_read' = (malformed_read \/ record \in MalformedRecords)
    /\ IF record = Undeserializable
       THEN producer' = "err deserializing" /\ input_source' = input_source
       ELSE LET parsed == from_parsed(record) IN
              IF ~parsed.ok
              THEN producer' = "err without an amount" /\ input_source' = input_source
              ELSE /\ Len(input_source) < ChannelSize
                   /\ input_source' = Append(input_source, parsed.tx)
                   /\ producer' = "reading"

ReadRecord ==
    /\ producer = "reading"
    /\ records_read < MaxRecords
    /\ \E record \in CsvRecord : Iteration(record)
    /\ UNCHANGED <<engine, pc, last, sums, lifecycle, rejection, open_disputes, current, expected>>

\* csv_reader.records() is exhausted: fetch_csv_data returns Ok(()), the sender
\* is dropped.
EndOfFile ==
    /\ producer = "reading"
    /\ producer' = "ok"
    /\ UNCHANGED <<engine, input_source, pc, last, sums, lifecycle, rejection, open_disputes,
                   records_read, current, expected, malformed_read>>

\* ------------------------------------------------------------------ pipeline
\* process_txs on the receiving end of the channel, update taken call by call
\* while fetch_csv_data runs as a task of its own.

\* mutant: the stream yields the item sent last
StreamNext_newest_first(stream) ==
    [item |-> stream[Len(stream)], rest |-> SubSeq(stream, 1, Len(stream) - 1)]

\* ReceiverStream::next on a channel that holds items: the oldest one
StreamNext(stream) == [item |-> Head(stream), rest |-> Tail(stream)]

\* next().await yields Some(tx); update(tx) is entered.
Receive ==
    /\ pc = "running"
    /\ input_source # <<>>
    /\ LET yielded == StreamNext(input_source) IN
         /\ current' = <<yielded.item>>
         /\ input_source' = yielded.rest
         /\ expected' = <<update(yielded.item)>>
    /\ pc' = "update"
    /\ UNCHANGED <<engine, last, sums, lifecycle, rejection, open_disputes, producer, records_read, malformed_read>>

\* update: if self.can_process_tx(&tx) { .. } else { Ok(()) }
CheckAdmission ==
    /\ pc = "update"
    /\ IF can_process_tx(current[1])
       THEN pc' = "admitted" /\ current' = current
       ELSE pc' = "running" /\ current' = <<>>
    /\ UNCHANGED <<engine, input_source, last, sums, lifecycle, rejection, open_disputes,
                   producer, records_read, expected, malformed_read>>

\* update: self.update_client_accounts(&tx)
Mutate ==
    /\ pc = "admitted"
    /\ LET changed == update_client_accounts(current[1]) IN
         /\ client_accounts' = changed.accounts
         /\ disputed_txs' = changed.disputed
    /\ pc' = "mutated"
    /\ UNCHANGED <<done_txs, input_source, last, sums, lifecycle, rejection, open_disputes, pipeline>>

\* update: self.update_tx_history(tx), and the `?` of process_txs
Record ==
    /\ pc = "mutated"
    /\ LET recorded == update_tx_history(current[1]) IN
         /\ done_txs' = recorded.done
         /\ pc' = IF recorded.result = "ok" THEN "running" ELSE "err"
    /\ current' = <<>>
    /\ UNCHANGED <<client_accounts, disputed_txs, input_source, last, sums, lifecycle, rejection, open_disputes,
                   producer, records_read, expected, malformed_read>>

\* next().await yields None: the channel is empty and its sender was dropped.
ChannelClosed ==
    /\ pc = "running"
    /\ input_source = <<>>
    /\ producer \in {"ok", "err deserializing", "err without an amount"}
    /\ pc' = "ok"
    /\ UNCHANGED <<engine, input_source, last, sums, lifecycle, rejection, open_disputes, pipeline>>

InitPipeline ==
    /\ NewEngine
    /\ input_source = <<>>
    /\ producer = "reading"
    /\ records_read = 0
    /\ malformed_read = FALSE

NextPipeline ==
    \/ ReadRecord
    \/ EndOfFile
    \/ Receive
    \/ CheckAdmission
    \/ Mutate
    \/ Record
    \/ ChannelClosed

SpecPipeline == InitPipeline /\ [][NextPipeline]_vars

\* ------------------------------------------------------------------ claims
AccountOf(accounts, c) ==
    IF c \in DOMAIN accounts THEN accounts[c] ELSE [available |-> 0, held |-> 0, locked |-> FALSE]

Locked(c) == c \in DOMAIN client_accounts /\ client_accounts[c].locked

RecordedAmount(t) == t \in DOMAIN done_txs /\ HasAmount(done_txs[t].inner)

\* process_txs applies tx in this step
Consumes(tx) == pc = "running" /\ Apply(tx)

\* C1: on a stream of Deposits and Withdrawals with pairwise distinct tx_ids,
\* after every prefix each client's available + held is the sum of its deposits
\* minus the sum of its withdrawals that the funds covered.
C1_TotalIsDepositsMinusWithdrawals ==
    distinct_dw =>
      \A c \in ClientId :
        AccountOf(client_accounts, c).available + AccountOf(client_accounts, c).held
          = sum_deposits[c] - sum_withdrawals[c]

C1_Witness ==
    /\ distinct_dw
    /\ \E c \in ClientId : sum_deposits[c] > 0 /\ sum_withdrawals[c] > 0

\* C2: a Withdrawal of more than the client's available balance, or of a client
\* with no account, changes no account, creates none, leaves the history and the
\* disputed set alone, and update returns Ok.
C2_UnfundedWithdrawalIsNoOp ==
    [][\A tx \in Tx :
         ( /\ tx.inner.kind = "Withdrawal"
           /\ \/ tx.client_id \notin DOMAIN client_accounts
              \/ tx.inner.amount > client_accounts[tx.client_id].available
           /\ Consumes(tx) )
         => (UNCHANGED engine /\ pc' = "running")]_vars

C2_Witness ==
    /\ last = [kind |-> "Withdrawal", admitted |-> FALSE]
    /\ pc = "running"
    /\ \E c \in DOMAIN client_accounts : client_accounts[c].available < MaxAmount
    /\ DOMAIN client_accounts # ClientId

\* C3: once a client's account is locked, every transaction of that client that
\* process_txs consumes leaves the accounts, the history and the disputed set
\* unchanged and raises no error, and a locked account stays locked.
C3_LockedClientIsDropped ==
    [][ /\ \A c \in ClientId :
             Locked(c) => (c \in DOMAIN client_accounts' /\ client_accounts'[c].locked)
        /\ ( /\ pc = "running"
             /\ input_source # <<>>
             /\ input_source' = Tail(input_source)
             /\ Locked(Head(input_source).client_id) )
           => (UNCHANGED engine /\ pc' = "running") ]_vars

C3_Witness ==
    /\ \E c \in ClientId : Locked(c)
    /\ last = [kind |-> "Deposit", admitted |-> FALSE]
    /\ pc = "running"

\* C4: process_txs returns the error only at an admitted Deposit or Withdrawal
\* whose tx_id an earlier recorded Deposit or Withdrawal already used.
C4_AbortsOnlyOnDuplicateDepositOrWithdrawal ==
    [][\A tx \in Tx :
         (Consumes(tx) /\ pc' = "err")
         => (HasAmount(tx.inner) /\ RecordedAmount(tx.tx_id))]_vars

\* C5: an admitted Deposit or Withdrawal whose tx_id is already a key of the
\* history makes process_txs return the error, and once it has returned the
\* error nothing more of the stream is applied.
C5_DuplicateTxIdEndsTheRun ==
    [][ /\ (pc = "running" /\ pc' # "err")
             => \A tx \in DWTx :
                  ( /\ tx.tx_id \in DOMAIN done_txs
                    /\ Admissible(tx)
                    /\ Consumes(tx) )
                  => pc' = "err"
        /\ pc = "err" => (pc' = "err" /\ UNCHANGED engine) ]_vars

C5_Witness ==
    /\ pc = "err"
    /\ last.admitted
    /\ last.kind \in {"Deposit", "Withdrawal"}
    /\ \E t \in DOMAIN done_txs : HasAmount(done_txs[t].inner)

\* C6: every entry of the transaction history is a Deposit or a Withdrawal.
C6_HistoryHoldsDepositsAndWithdrawalsOnly ==
    \A t \in DOMAIN done_txs : HasAmount(done_txs[t].inner)

\* C7: a Dispute, Resolve or Chargeback whose tx_id names no recorded
\* Deposit/Withdrawal, or whose client has no account, changes no account and not
\* the disputed set, and update returns Ok, every time it occurs.
C7_UnknownReferenceIsSilentNoOp ==
    [][\A tx \in Tx :
         ( /\ ~HasAmount(tx.inner)
           /\ \/ ~RecordedAmount(tx.tx_id)
              \/ tx.client_id \notin DOMAIN client_accounts
           /\ Consumes(tx) )
         => ( /\ client_accounts' = client_accounts
              /\ disputed_txs' = disputed_txs
              /\ pc' = "running" )]_vars

\* C8: a Dispute of an unlocked client with an account, naming a recorded
\* Deposit/Withdrawal of amount a, takes a from available, adds a to held, keeps
\* the total and locked, and puts the tx_id in the disputed set.
C8_DisputeMovesAmountToHeld ==
    [][\A tx \in Tx :
         ( /\ tx.inner.kind = "Dispute"
           /\ tx.client_id \in DOMAIN client_accounts
           /\ ~Locked(tx.client_id)
           /\ RecordedAmount(tx.tx_id)
           /\ Consumes(tx) )
         => LET before == client_accounts[tx.client_id]
                after == client_accounts'[tx.client_id]
                a == done_txs[tx.tx_id].inner.amount
            IN /\ after.available = before.available - a
               /\ after.held = before.held + a
               /\ after.available + after.held = before.available + before.held
               /\ after.locked = before.locked
               /\ disputed_txs' = disputed_txs \cup {tx.tx_id}]_vars

\* Deposit(a) then its Dispute on a fresh client: available 0, held a, unlocked.
C8_Witness ==
    /\ last = [kind |-> "Dispute", admitted |-> TRUE]
    /\ \E c \in DOMAIN client_accounts, t \in disputed_txs :
         /\ RecordedAmount(t)
         /\ done_txs[t].inner.kind = "Deposit"
         /\ done_txs[t].client_id = c
         /\ client_accounts[c] =
              [available |-> 0, held |-> done_txs[t].inner.amount, locked |-> FALSE]

Returned == pc \in {"ok", "err"}

\* The stream went on, after the Dispute that opened the lifecycle, with `kind`
\* for the same client and tx_id: consumed already, or still at its head.
FollowedBy(kind, stage) ==
    \/ lifecycle.stage = stage
    \/ /\ lifecycle.stage = "disputed"
       /\ input_source = <<MkTx(lifecycle.client_id, lifecycle.tx_id, kind)>>

\* C9: when the stream ends with Dispute(t), Resolve(t) for the client's own
\* recorded Deposit t, process_txs ends with the client's available and held as
\* they were before the Dispute and t not in the disputed set.
C9_DisputeResolveRestores ==
    (Returned /\ FollowedBy("Resolve", "resolved")) =>
      /\ input_source = <<>>
      /\ client_accounts[lifecycle.client_id].available = lifecycle.available
      /\ client_accounts[lifecycle.client_id].held = lifecycle.held
      /\ lifecycle.tx_id \notin disputed_txs

\* C10: when the stream ends with Dispute(t), Chargeback(t) for the client's own
\* recorded Deposit t of amount a, process_txs ends with held as before the
\* Dispute, available a less than before it, and the account locked.
C10_DisputeChargebackRemovesAndLocks ==
    (Returned /\ FollowedBy("Chargeback", "chargedback")) =>
      /\ input_source = <<>>
      /\ client_accounts[lifecycle.client_id].available
           = lifecycle.available - lifecycle.amount
      /\ client_accounts[lifecycle.client_id].held = lifecycle.held
      /\ client_accounts[lifecycle.client_id].locked

\* C11 as stated: after process_txs has consumed a transaction of client c, of
\* any kind and admitted or not, the account mapping has an entry for c.
C11_EveryReferencedClientHasAnAccount ==
    [][\A tx \in Tx :
         Consumes(tx) => tx.client_id \in DOMAIN client_accounts']_vars

\* C11 (amended): after process_txs has consumed a Deposit of client c the
\* account mapping has an entry for c, which for a client that had none is the
\* new account (0, 0, unlocked) credited with the deposit; a transaction of any
\* other kind creates no entry; no entry is ever removed.
C11_DepositedClientHasAnAccount ==
    [][ /\ DOMAIN client_accounts \subseteq DOMAIN client_accounts'
        /\ \A tx \in Tx :
             (tx.inner.kind = "Deposit" /\ Consumes(tx))
             => tx.client_id \in DOMAIN client_accounts'
        /\ (DOMAIN client_accounts' # DOMAIN client_accounts)
             => \A tx \in Tx :
                  Consumes(tx)
                  => /\ tx.inner.kind = "Deposit"
                     /\ DOMAIN client_accounts' = DOMAIN client_accounts \cup {tx.client_id}
                     /\ client_accounts'[tx.client_id] =
                          [available |-> tx.inner.amount, held |-> 0, locked |-> FALSE]
      ]_vars

\* A first Deposit has created an account while another client, referenced or
\* not, still has none.
C11_Witness ==
    /\ last = [kind |-> "Deposit", admitted |-> TRUE]
    /\ pc = "running"
    /\ \E c \in DOMAIN client_accounts :
         /\ client_accounts[c].available \in Amount
         /\ client_accounts[c].held = 0
         /\ ~client_accounts[c].locked
         /\ DOMAIN done_txs # {}
         /\ \A t \in DOMAIN done_txs : done_txs[t].client_id = c
    /\ DOMAIN client_accounts # ClientId

\* C12: every item on the channel, and every item the engine has received, is
\* a Tx whose Deposit/Withdrawal carries an amount; the producer stops with
\* the error at a Deposit/Withdrawal record with no amount without sending it,
\* and sends nothing after it has stopped.
C12_ProducerForwardsNoMalformedRecord ==
    /\ [](/\ \A i \in 1..Len(input_source) : input_source[i] \in Tx
          /\ (current # <<>>) => (current[1] \in Tx)
          /\ malformed_read => (producer = "err without an amount"))
    /\ [][((malformed_read' /\ ~malformed_read) => (input_source' = input_source))
          /\ ((producer = "err without an amount")
              => (producer' = producer /\ Len(input_source') <= Len(input_source)))
         ]_vars

\* The producer stopped at the last record of the file, after it had sent a
\* well-formed one that the engine has or will receive.
C12_Witness ==
    /\ malformed_read
    /\ producer = "err without an amount"
    /\ records_read = MaxRecords
    /\ input_source # <<>> \/ done_txs # <<>>

\* C13: process_txs takes the items in the order the channel holds them, one
\* at a time: an item leaves the channel only as its oldest item and only when
\* no update is under way, the engine changes only inside update, and when
\* update returns the engine is as update(tx) leaves it when nothing
\* intervenes, whatever the producer did meanwhile.
C13_OneAtATimeInStreamOrder ==
    /\ []((current = <<>> /\ expected # <<>>)
            => (/\ client_accounts = expected[1].accounts
                /\ disputed_txs = expected[1].disputed
                /\ done_txs = expected[1].done
                /\ (pc = "err") <=> (expected[1].result = "err")))
    /\ [][((input_source' # input_source)
              => (\/ (/\ Len(input_source') = Len(input_source) + 1
                      /\ SubSeq(input_source', 1, Len(input_source)) = input_source
                      /\ UNCHANGED <<engine, current>>)
                  \/ (/\ current = <<>>
                      /\ current' = <<Head(input_source)>>
                      /\ input_source' = Tail(input_source))))
          /\ ((current' # current)
              => ((current = <<>> /\ input_source' # input_source) \/ current' = <<>>))
          /\ ((engine' # engine) => (current # <<>> /\ input_source' = input_source))
         ]_vars

\* The producer has read the whole file and every item it sent has been
\* applied, two of them recorded.
C13_Witness ==
    /\ records_read = MaxRecords
    /\ input_source = <<>>
    /\ current = <<>>
    /\ expected # <<>>
    /\ Cardinality(DOMAIN done_txs) >= 2
    /\ DOMAIN client_accounts # {}

\* C14: a transaction rejected at admission (its client is locked, or it is a
\* Withdrawal the client's funds do not cover) leaves the accounts, the
\* history and the disputed set as they were and process_txs goes on; a tx_id
\* that was unused when a transaction carrying it was rejected stays unused,
\* and an admitted Deposit or Withdrawal that carries it afterwards is
\* recorded under it without an error.
C14_RejectedLeavesNoTrace ==
    /\ [](rejection.ids \cap DOMAIN done_txs = {})
    /\ [][(pc = "running" /\ input_source # <<>> /\ input_source' = Tail(input_source))
          => LET tx == Head(input_source) IN
               /\ ~Admissible(tx) => (UNCHANGED engine /\ pc' = "running")
               /\ (Admissible(tx) /\ HasAmount(tx.inner) /\ tx.tx_id \in rejection.ids)
                    => (/\ pc' = "running"
                        /\ tx.tx_id \in DOMAIN done_txs'
                        /\ done_txs'[tx.tx_id] = tx)
         ]_vars

\* A client is locked, a transaction was rejected, and a Deposit or Withdrawal
\* that came after it with the same tx_id has been recorded.
C14_Witness ==
    /\ rejection.reused
    /\ pc = "ok"
    /\ \E c \in ClientId : Locked(c)

\* C15: the disputed set holds exactly the tx_ids whose most recent effective
\* Dispute or Resolve was a Dispute, every member of it is recorded in the
\* history as a Deposit or Withdrawal, and a Chargeback leaves it unchanged.
C15_DisputedSetTracksOpenDisputes ==
    /\ [](/\ disputed_txs = open_disputes
          /\ \A t \in disputed_txs : RecordedAmount(t))
    /\ [][(/\ pc = "running"
           /\ input_source # <<>>
           /\ input_source' = Tail(input_source)
           /\ Head(input_source).inner.kind = "Chargeback")
          => (disputed_txs' = disputed_txs)]_vars

\* An effective Dispute put the tx_id in the set and the effective Resolve that
\* followed took it out again.
C15_Witness ==
    /\ lifecycle.stage = "resolved"
    /\ last = [kind |-> "Resolve", admitted |-> TRUE]
    /\ client_accounts[lifecycle.client_id].held = lifecycle.held
    /\ lifecycle.tx_id \notin disputed_txs

\* C16: a Resolve of an unlocked client with an account, naming a recorded
\* Deposit/Withdrawal of amount a that is not in the disputed set, still adds a
\* to available and takes a from held; a Chargeback naming one that is not in
\* the disputed set still takes a from available and from held and locks the
\* account.
C16_ResolveAndChargebackIgnoreMembership ==
    [][\A tx \in Tx :
         ( /\ tx.inner.kind \in {"Resolve", "Chargeback"}
           /\ tx.client_id \in DOMAIN client_accounts
           /\ ~Locked(tx.client_id)
           /\ RecordedAmount(tx.tx_id)
           /\ tx.tx_id \notin disputed_txs
           /\ Consumes(tx) )
         => LET before == client_accounts[tx.client_id]
                after == client_accounts'[tx.client_id]
                a == done_txs[tx.tx_id].inner.amount
            IN IF tx.inner.kind = "Resolve"
               THEN /\ after.available = before.available + a
                    /\ after.held = before.held - a
                    /\ after.locked = before.locked
               ELSE /\ after.available = before.available - a
                    /\ after.held = before.held - a
                    /\ after.locked]_vars

\* A Resolve of a transaction that was never disputed has left held negative.
C16_Witness ==
    /\ last = [kind |-> "Resolve", admitted |-> TRUE]
    /\ disputed_txs = {}
    /\ \E c \in DOMAIN client_accounts :
         /\ client_accounts[c].held < 0
         /\ client_accounts[c].available + client_accounts[c].held \in Amount
         /\ ~client_accounts[c].locked

\* Client c has no negative balance (a client with no account has none).
NonNegative(accounts, c) ==
    c \in DOMAIN accounts => (accounts[c].available >= 0 /\ accounts[c].held >= 0)

\* C17 as stated: an account to which no Chargeback has been applied (it is not
\* locked: only a Chargeback locks) has available >= 0 and held >= 0.
C17_NegativeOnlyAfterChargeback ==
    \A c \in DOMAIN client_accounts :
      ~client_accounts[c].locked => NonNegative(client_accounts, c)

\* C17 (amended): a client's available or held turns negative only in a step
\* that applies a Dispute, Resolve or Chargeback of that client; Deposits and
\* Withdrawals never make a balance negative, so a client to which none of the
\* three has been applied has available >= 0 and held >= 0.
C17_NegativeOnlyAfterDisputeResolveChargeback ==
    [][\A c \in ClientId :
         (NonNegative(client_accounts, c) /\ ~NonNegative(client_accounts', c))
         => \E tx \in Tx :
              /\ tx.inner.kind \in {"Dispute", "Resolve", "Chargeback"}
              /\ tx.client_id = c
              /\ Consumes(tx)]_vars

\* A client has withdrawn all it deposited: only Deposits and Withdrawals were
\* recorded and its balances are zero.
C17_Witness ==
    /\ last = [kind |-> "Withdrawal", admitted |-> TRUE]
    /\ pc = "running"
    /\ \A t \in DOMAIN done_txs : HasAmount(done_txs[t].inner)
    /\ \E c \in DOMAIN client_accounts :
         /\ client_accounts[c].available = 0
         /\ client_accounts[c].held = 0
         /\ \E t \in DOMAIN done_txs :
              done_txs[t].client_id = c /\ done_txs[t].inner.kind = "Withdrawal"

\* The account of c is the same before and after the step (absent both times,
\* or present with the same available, held and locked).
SameAccount(c) ==
    /\ (c \in DOMAIN client_accounts) <=> (c \in DOMAIN client_accounts')
    /\ c \in DOMAIN client_accounts => client_accounts'[c] = client_accounts[c]

\* C18: update(tx) leaves the account of every client other than tx.client_id
\* unchanged; a Dispute, Resolve or Chargeback of an unlocked client with an
\* account that names a Deposit/Withdrawal recorded for another client moves
\* that amount in the account of tx.client_id.
C18_OnlyTheTxClientChanges ==
    [][ /\ (client_accounts' # client_accounts)
             => \A tx \in Tx :
                  Consumes(tx) => \A c \in ClientId \ {tx.client_id} : SameAccount(c)
        /\ \A tx \in Tx :
             ( /\ ~HasAmount(tx.inner)
               /\ RecordedAmount(tx.tx_id)
               /\ done_txs[tx.tx_id].client_id # tx.client_id
               /\ tx.client_id \in DOMAIN client_accounts
               /\ ~Locked(tx.client_id)
               /\ Consumes(tx) )
             => LET before == client_accounts[tx.client_id]
                    after == client_accounts'[tx.client_id]
                    a == done_txs[tx.tx_id].inner.amount
                IN after =
                     CASE tx.inner.kind = "Dispute" ->
                            [before EXCEPT !.available = @ - a, !.held = @ + a]
                       [] tx.inner.kind = "Resolve" ->
                            [before EXCEPT !.available = @ + a, !.held = @ - a]
                       [] tx.inner.kind = "Chargeback" ->
                            [before EXCEPT !.available = @ - a, !.held = @ - a,
                                           !.locked = TRUE]
      ]_vars

\* A client has disputed another client's Deposit: the amount is held in the
\* disputing client's account and the owner's account is as the Deposit left it.
C18_Witness ==
    /\ last = [kind |-> "Dispute", admitted |-> TRUE]
    /\ \E t \in disputed_txs, c \in DOMAIN client_accounts :
         /\ RecordedAmount(t)
         /\ done_txs[t].inner.kind = "Deposit"
         /\ done_txs[t].client_id # c
         /\ client_accounts[c].held = done_txs[t].inner.amount
         /\ done_txs[t].client_id \in DOMAIN client_accounts
         /\ client_accounts[done_txs[t].client_id] =
              [available |-> done_txs[t].inner.amount, held |-> 0, locked |-> FALSE]

\* The account of tx.client_id once the effect of tx is applied to it, as the
\* ledger rules give it for each kind.
AccountWithEffect(tx) ==
    LET before == AccountOf(client_accounts, tx.client_id)
        found == RecordedAmount(tx.tx_id) /\ tx.client_id \in DOMAIN client_accounts
        a == IF HasAmount(tx.inner) THEN tx.inner.amount
             ELSE IF found THEN done_txs[tx.tx_id].inner.amount ELSE 0
    IN CASE tx.inner.kind = "Deposit" -> [before EXCEPT !.available = @ + a]
         [] tx.inner.kind = "Withdrawal" -> [before EXCEPT !.available = @ - a]
         [] tx.inner.kind = "Dispute" ->
              [before EXCEPT !.available = @ - a, !.held = @ + a]
         [] tx.inner.kind = "Resolve" ->
              [before EXCEPT !.available = @ + a, !.held = @ - a]
         [] tx.inner.kind = "Chargeback" ->
              [before EXCEPT !.available = @ - a, !.held = @ - a,
                             !.locked = (found \/ @)]

\* C19: when update returns the duplicate-tx_id error for tx, the state it
\* leaves has the effect of tx on the account of tx.client_id, and the history
\* is as before: tx.tx_id still maps to the transaction recorded first.
C19_DuplicateErrorKeepsTheMutation ==
    [][(pc = "running" /\ pc' = "err")
       => \A tx \in Tx :
            Consumes(tx)
            => /\ tx.tx_id \in DOMAIN done_txs
               /\ done_txs' = done_txs
               /\ AccountOf(client_accounts', tx.client_id) = AccountWithEffect(tx)]_vars

\* Deposit(a) twice under one tx_id: the run is aborted, the client has 2a
\* available and the history holds the one Deposit.
C19_Witness ==
    /\ pc = "err"
    /\ last = [kind |-> "Deposit", admitted |-> TRUE]
    /\ Cardinality(DOMAIN done_txs) = 1
    /\ \E t \in DOMAIN done_txs :
         /\ done_txs[t].inner.kind = "Deposit"
         /\ DOMAIN client_accounts = {done_txs[t].client_id}
         /\ client_accounts[done_txs[t].client_id] =
              [available |-> 2 * done_txs[t].inner.amount, held |-> 0, locked |-> FALSE]

\* C20: a Dispute, Resolve or Chargeback that changes an account makes
\* process_txs return the error in the same step; as long as process_txs has
\* returned no error every account has held = 0 and is unlocked and the
\* disputed set is empty.
C20_DisputeEffectsOnlyInAbortedRuns ==
    /\ [](pc # "err"
            => /\ disputed_txs = {}
               /\ \A c \in DOMAIN client_accounts :
                    client_accounts[c].held = 0 /\ ~client_accounts[c].locked)
    /\ [][\A tx \in Tx :
            ( /\ tx.inner.kind \in {"Dispute", "Resolve", "Chargeback"}
              /\ Consumes(tx)
              /\ client_accounts' # client_accounts )
            => pc' = "err"]_vars

\* A Chargeback has locked an account and the run is aborted.
C20_Witness ==
    /\ pc = "err"
    /\ last = [kind |-> "Chargeback", admitted |-> TRUE]
    /\ \E c \in DOMAIN client_accounts :
         client_accounts[c].locked /\ client_accounts[c].held < 0

====
